---------------------------- MODULE Spec2Model ----------------------------
(***************************************************************************)
(* Model of granola-skill: auth.js (OAuth 2.1 + PKCE + dynamic client      *)
(* registration, with the local callback server) and refresh.js (refresh   *)
(* grant), sharing the .env credential file.                               *)
(*                                                                         *)
(* Text is a sequence of one-character strings, so that the file format    *)
(* (split, trim, indexOf, slice, join, String, parseInt) is computed as    *)
(* the scripts compute it.                                                 *)
(***************************************************************************)
EXTENDS Integers, Sequences, FiniteSets

\* ------------------------------------------------------------ JS values

\* JavaScript's undefined (an absent JSON field, an absent object property).
\* It is a one-element sequence, never equal to a text, whose elements are
\* single characters.
Undefined == <<"<undefined>">>
\* JavaScript's null (URLSearchParams.get of an absent parameter).
Null == <<"<null>">>

NL == "\n"
WhiteSpace == {" ", "\t", "\r", NL}
Digits == <<"0", "1", "2", "3", "4", "5", "6", "7", "8", "9">>

\* String.prototype.startsWith
startsWith(s, p) == Len(s) >= Len(p) /\ SubSeq(s, 1, Len(p)) = p

RECURSIVE trimStart(_)
trimStart(s) ==
  IF s # <<>> /\ Head(s) \in WhiteSpace THEN trimStart(Tail(s)) ELSE s

RECURSIVE trimEnd(_)
trimEnd(s) ==
  IF s # <<>> /\ s[Len(s)] \in WhiteSpace
  THEN trimEnd(SubSeq(s, 1, Len(s) - 1)) ELSE s

\* String.prototype.trim
trim(s) == trimEnd(trimStart(s))

RECURSIVE indexFrom(_, _, _)
indexFrom(s, ch, i) ==
  IF i > Len(s) THEN -1
  ELSE IF s[i] = ch THEN i - 1
  ELSE indexFrom(s, ch, i + 1)

\* String.prototype.indexOf of one character: 0-based, -1 when absent
indexOf(s, ch) == indexFrom(s, ch, 1)

\* String.prototype.slice(a, b) and slice(a), 0-based, end exclusive
slice(s, a, b) == SubSeq(s, a + 1, b)
sliceFrom(s, a) == SubSeq(s, a + 1, Len(s))

RECURSIVE splitFrom(_, _, _)
\* The pieces of s from position from (1-based) on
splitFrom(s, sep, from) ==
  LET i == indexFrom(s, sep, from)
  IN  IF i = -1 THEN <<SubSeq(s, from, Len(s))>>
      ELSE <<SubSeq(s, from, i)>> \o splitFrom(s, sep, i + 2)

\* String.prototype.split on a one-character separator: the pieces between
\* consecutive separators, empty pieces kept
split(s, sep) == splitFrom(s, sep, 1)

RECURSIVE join(_, _)
\* Array.prototype.join on a one-character separator
join(lines, sep) ==
  IF lines = <<>> THEN <<>>
  ELSE IF Len(lines) = 1 THEN lines[1]
  ELSE lines[1] \o <<sep>> \o join(Tail(lines), sep)

RECURSIVE String(_)
\* String(n) of a non-negative integer: its decimal digits
String(n) ==
  IF n < 10 THEN <<Digits[n + 1]>>
  ELSE Append(String(n \div 10), Digits[(n % 10) + 1])

digitValue(ch) == CHOOSE d \in 0..9 : Digits[d + 1] = ch
isDigit(ch) == \E d \in 0..9 : Digits[d + 1] = ch

RECURSIVE parseDigits(_, _, _)
parseDigits(s, i, acc) ==
  IF i > Len(s) \/ ~isDigit(s[i]) THEN acc
  ELSE parseDigits(s, i + 1, acc * 10 + digitValue(s[i]))

\* parseInt(s, 10) of unsigned text: leading whitespace skipped, the longest
\* digit prefix read; NaN (parseIntIsNaN) when there is none
parseIntIsNaN(s) ==
  LET t == trimStart(s) IN t = <<>> \/ ~isDigit(t[1])

parseInt(s) == parseDigits(trimStart(s), 1, 0)

\* A template literal's `${v}` of a text or undefined
text(v) ==
  IF v = Undefined THEN <<"u", "n", "d", "e", "f", "i", "n", "e", "d">> ELSE v

\* obj.f of a parsed JSON object: undefined when the field is absent
field(obj, f) == IF f \in DOMAIN obj THEN obj[f] ELSE Undefined

\* Whether a parsed JSON object (or a response's headers) has the field
has(obj, f) == f \in DOMAIN obj

\* JavaScript truthiness of a text-valued expression
truthy(v) == v # Undefined /\ v # Null /\ v # <<>>

\* ------------------------------------------------------------ JS objects
\* A plain object with string keys is the sequence of its <<key, value>>
\* entries in insertion order (Object.entries order for non-index keys).

hasKey(obj, k) == \E i \in 1..Len(obj) : obj[i][1] = k

\* obj[k] = v : an existing key keeps its place, a new key is appended
setKey(obj, k, v) ==
  IF hasKey(obj, k)
  THEN [i \in 1..Len(obj) |-> IF obj[i][1] = k THEN <<k, v>> ELSE obj[i]]
  ELSE Append(obj, <<k, v>>)

\* obj[k], undefined when absent
getKey(obj, k) ==
  IF hasKey(obj, k)
  THEN (CHOOSE e \in {obj[i] : i \in 1..Len(obj)} : e[1] = k)[2]
  ELSE Undefined

RECURSIVE spread(_, _)
\* { ...a, ...b }
spread(a, b) ==
  IF b = <<>> THEN a ELSE spread(setKey(a, b[1][1], b[1][2]), Tail(b))

keysOf(obj) == {obj[i][1] : i \in 1..Len(obj)}

\* ------------------------------------------------------ credential file

GRANOLA_ == <<"G", "R", "A", "N", "O", "L", "A", "_">>
GRANOLA_ACCESS_TOKEN ==
  GRANOLA_ \o <<"A", "C", "C", "E", "S", "S", "_", "T", "O", "K", "E", "N">>
GRANOLA_REFRESH_TOKEN ==
  GRANOLA_ \o <<"R", "E", "F", "R", "E", "S", "H", "_", "T", "O", "K", "E", "N">>
GRANOLA_TOKEN_EXPIRES_AT ==
  GRANOLA_ \o <<"T", "O", "K", "E", "N", "_", "E", "X", "P", "I", "R", "E", "S", "_", "A", "T">>
GRANOLA_CLIENT_ID ==
  GRANOLA_ \o <<"C", "L", "I", "E", "N", "T", "_", "I", "D">>
GRANOLA_TOKEN_ENDPOINT ==
  GRANOLA_ \o <<"T", "O", "K", "E", "N", "_", "E", "N", "D", "P", "O", "I", "N", "T">>

\* The fallback token lifetime of saveToEnv, in seconds
DefaultExpiresIn == 3600

\* tokens.expires_in || 3600 : an absent and a zero expires_in are both falsy
expiresInOr(tokens) ==
  IF "expires_in" \in DOMAIN tokens /\ tokens.expires_in # 0
  THEN tokens.expires_in ELSE DefaultExpiresIn

\* tokens.refresh_token || ''
refreshTokenOr(tokens) ==
  IF truthy(field(tokens, "refresh_token")) THEN tokens.refresh_token ELSE <<>>

\* The file on disk: existsSync and readFileSync of process.cwd() + '/.env'
NoFile == [exists |-> FALSE, content |-> <<>>]
FileOf(content) == [exists |-> TRUE, content |-> content]

\* `${k}=${v}` for every entry
RECURSIVE entryLines(_)
entryLines(obj) ==
  IF obj = <<>> THEN <<>>
  ELSE <<obj[1][1] \o <<"=">> \o text(obj[1][2])>> \o entryLines(Tail(obj))

\* The loop without the ownership test: every KEY=VALUE line is kept
RECURSIVE authExistingKeepAll(_, _)
authExistingKeepAll(lines, existing) ==
  IF lines = <<>> THEN existing
  ELSE LET trimmed == trim(Head(lines))
           eqIdx == indexOf(trimmed, "=")
           key == slice(trimmed, 0, eqIdx)
           val == sliceFrom(trimmed, eqIdx + 1)
       IN  IF trimmed = <<>> \/ startsWith(trimmed, <<"#">>)
           THEN authExistingKeepAll(Tail(lines), existing)
           ELSE IF eqIdx = -1 THEN authExistingKeepAll(Tail(lines), existing)
           ELSE authExistingKeepAll(Tail(lines), setKey(existing, key, val))

\* auth.js saveToEnv, the loop over the existing file's lines
RECURSIVE authExisting(_, _)
authExisting(lines, existing) ==
  IF lines = <<>> THEN existing
  ELSE LET trimmed == trim(Head(lines))
           eqIdx == indexOf(trimmed, "=")
           key == slice(trimmed, 0, eqIdx)
           val == sliceFrom(trimmed, eqIdx + 1)
       IN  IF trimmed = <<>> \/ startsWith(trimmed, <<"#">>)
           THEN authExisting(Tail(lines), existing)
           ELSE IF eqIdx = -1 THEN authExisting(Tail(lines), existing)
           ELSE IF ~startsWith(key, GRANOLA_)
           THEN authExisting(Tail(lines), setKey(existing, key, val))
           ELSE authExisting(Tail(lines), existing)

\* auth.js saveToEnv: the file it leaves, written at epoch second now
saveToEnv(file, tokens, clientId, tokenEndpoint, now) ==
  LET expiresAt == now + expiresInOr(tokens)
      newVars == << <<GRANOLA_ACCESS_TOKEN, field(tokens, "access_token")>>,
                    <<GRANOLA_REFRESH_TOKEN, refreshTokenOr(tokens)>>,
                    <<GRANOLA_TOKEN_EXPIRES_AT, String(expiresAt)>>,
                    <<GRANOLA_CLIENT_ID, clientId>>,
                    <<GRANOLA_TOKEN_ENDPOINT, tokenEndpoint>> >>
      existing == IF file.exists
                  THEN authExisting(split(file.content, NL), <<>>)
                  ELSE <<>>
      merged == spread(existing, newVars)
      lines == entryLines(merged)
  IN  FileOf(join(lines, NL) \o <<NL>>)

\* The loop with the value cut at the next '=' (trimmed.split('=')[1])
RECURSIVE refreshExistingSplitValue(_, _)
refreshExistingSplitValue(lines, existing) ==
  IF lines = <<>> THEN existing
  ELSE LET trimmed == trim(Head(lines))
           eqIdx == indexOf(trimmed, "=")
           key == slice(trimmed, 0, eqIdx)
       IN  IF trimmed = <<>> \/ startsWith(trimmed, <<"#">>)
           THEN refreshExistingSplitValue(Tail(lines), existing)
           ELSE IF eqIdx = -1
           THEN refreshExistingSplitValue(Tail(lines), existing)
           ELSE IF ~startsWith(key, GRANOLA_)
           THEN refreshExistingSplitValue(Tail(lines),
                  setKey(existing, key, split(trimmed, "=")[2]))
           ELSE refreshExistingSplitValue(Tail(lines), existing)

\* refresh.js saveToEnv, the loop over the existing file's lines
RECURSIVE refreshExisting(_, _)
refreshExisting(lines, existing) ==
  IF lines = <<>> THEN existing
  ELSE LET trimmed == trim(Head(lines))
           eqIdx == indexOf(trimmed, "=")
           key == slice(trimmed, 0, eqIdx)
       IN  IF trimmed = <<>> \/ startsWith(trimmed, <<"#">>)
           THEN refreshExisting(Tail(lines), existing)
           ELSE IF eqIdx = -1 THEN refreshExisting(Tail(lines), existing)
           ELSE IF ~startsWith(key, GRANOLA_)
           THEN refreshExisting(Tail(lines),
                                setKey(existing, key, sliceFrom(trimmed, eqIdx + 1)))
           ELSE refreshExisting(Tail(lines), existing)

\* A save that takes the client id from the token response
refreshSaveToEnvResponseClient(file, tokens, clientId, tokenEndpoint, now) ==
  LET expiresAt == now + expiresInOr(tokens)
      newVars == << <<GRANOLA_ACCESS_TOKEN, field(tokens, "access_token")>>,
                    <<GRANOLA_REFRESH_TOKEN, refreshTokenOr(tokens)>>,
                    <<GRANOLA_TOKEN_EXPIRES_AT, String(expiresAt)>>,
                    <<GRANOLA_CLIENT_ID, field(tokens, "client_id")>>,
                    <<GRANOLA_TOKEN_ENDPOINT, tokenEndpoint>> >>
      existing == IF file.exists
                  THEN refreshExisting(split(file.content, NL), <<>>)
                  ELSE <<>>
      lines == entryLines(spread(existing, newVars))
  IN  FileOf(join(lines, NL) \o <<NL>>)

\* refresh.js saveToEnv
refreshSaveToEnv(file, tokens, clientId, tokenEndpoint, now) ==
  LET expiresAt == now + expiresInOr(tokens)
      newVars == << <<GRANOLA_ACCESS_TOKEN, field(tokens, "access_token")>>,
                    <<GRANOLA_REFRESH_TOKEN, refreshTokenOr(tokens)>>,
                    <<GRANOLA_TOKEN_EXPIRES_AT, String(expiresAt)>>,
                    <<GRANOLA_CLIENT_ID, clientId>>,
                    <<GRANOLA_TOKEN_ENDPOINT, tokenEndpoint>> >>
      existing == IF file.exists
                  THEN refreshExisting(split(file.content, NL), <<>>)
                  ELSE <<>>
      lines == entryLines(spread(existing, newVars))
  IN  FileOf(join(lines, NL) \o <<NL>>)

\* refresh.js readEnv, the loop over the file's lines
RECURSIVE readEnvLines(_, _)
readEnvLines(lines, vars) ==
  IF lines = <<>> THEN vars
  ELSE LET trimmed == trim(Head(lines))
           eqIdx == indexOf(trimmed, "=")
       IN  IF trimmed = <<>> \/ startsWith(trimmed, <<"#">>)
           THEN readEnvLines(Tail(lines), vars)
           ELSE IF eqIdx = -1 THEN readEnvLines(Tail(lines), vars)
           ELSE readEnvLines(Tail(lines),
                             setKey(vars, slice(trimmed, 0, eqIdx),
                                    sliceFrom(trimmed, eqIdx + 1)))

\* refresh.js readEnv: {} when the file is absent
readEnv(file) ==
  IF ~file.exists THEN <<>> ELSE readEnvLines(split(file.content, NL), <<>>)


\* ------------------------------------------------------------- bounds

\* Requests the callback server receives in one run of auth.js
MaxRequests == 2

\* ------------------------------------------------------------- inputs

c1 == <<"c", "1">>
c2 == <<"c", "2">>
e1 == <<"e", "1">>
a1 == <<"a", "1">>
a2 == <<"a", "2">>
r0 == <<"r", "0">>
r1 == <<"r", "1">>
r2 == <<"r", "2">>
s1 == <<"s", "1">>
s2 == <<"s", "2">>
v1 == <<"v", "1">>
v2 == <<"v", "2">>
code1 == <<"k", "1">>
denied == <<"d", "e", "n", "y">>

\* Math.floor(Date.now() / 1000) when refresh.js main reads the clock
Times == {1000, 1001}
\* Math.floor(Date.now() / 1000) when saveToEnv reads the clock
SaveTimes == {1001}

kv(k, v) == k \o <<"=">> \o v

\* Credential files a run can find: none; a file never written by the
\* scripts (comment, blank line, padded and repeated foreign keys, a line
\* without '=', a stray GRANOLA_ key, complete refresh material about to
\* expire); a file with valid credentials.
InitialFiles ==
  { NoFile,
    FileOf(join(<< <<"#", " ", "x">>,
                   kv(<<"F">>, <<"z">>),
                   <<>>,
                   kv(GRANOLA_ \o <<"X">>, <<"9">>),
                   kv(GRANOLA_REFRESH_TOKEN, r0),
                   kv(GRANOLA_CLIENT_ID, c2),
                   <<"n", "o", "e", "q">>,
                   kv(GRANOLA_TOKEN_ENDPOINT, e1),
                   kv(GRANOLA_TOKEN_EXPIRES_AT, String(1060)),
                   kv(<<"H", " ">>, <<>>),
                   kv(<<>>, <<" ", "e">>),
                   kv(<<"e", "x", "p", "o", "r", "t", " ", "Q">>, <<"1">>),
                   <<" ">> \o kv(<<"F">>, <<"b", " ", "=", "1">>) \o <<" ", "\r">> >>,
                NL)),
    FileOf(join(<< kv(GRANOLA_ACCESS_TOKEN, a2),
                   kv(GRANOLA_REFRESH_TOKEN, r0),
                   kv(GRANOLA_TOKEN_EXPIRES_AT, String(1061)),
                   kv(GRANOLA_CLIENT_ID, c1),
                   kv(GRANOLA_TOKEN_ENDPOINT, e1) >>, NL) \o <<NL>>) }

\* What the token endpoint can answer: a status and a parsed JSON body
TokenBodies ==
  { [access_token |-> a1, refresh_token |-> r1, expires_in |-> 60],
    [access_token |-> a2],
    [access_token |-> a1, refresh_token |-> r2, expires_in |-> 0],
    [refresh_token |-> r1, expires_in |-> 60] }

TokenResponses ==
  {[status |-> 200, body |-> b] : b \in TokenBodies}
    \cup {[status |-> 400, body |-> [error |-> denied]],
          [status |-> 201, body |-> [access_token |-> a1]]}

\* What the MCP endpoint can answer to the probe: wwwAuth is the value of
\* www-authenticate || x-amzn-remapped-www-authenticate, resource_metadata
\* the group the header's resource_metadata="..." parameter matches
ProbeResponses ==
  { [status |-> 401, wwwAuth |-> [resource_metadata |-> <<"m">>]],
    [status |-> 401, wwwAuth |-> [realm |-> <<"x">>]],
    [status |-> 401],
    [status |-> 200, wwwAuth |-> [resource_metadata |-> <<"m">>]] }

ResourceMetadataResponses ==
  { [status |-> 200, body |-> [authorization_servers |-> << <<"i">> >>]],
    [status |-> 200, body |-> [authorization_servers |-> <<>>]],
    [status |-> 200, body |-> [resource |-> <<"x">>]],
    [status |-> 404, body |-> [authorization_servers |-> << <<"i">> >>]] }

AuthServerMetadataResponses ==
  { [status |-> 200, body |-> [authorization_endpoint |-> <<"z">>,
                               token_endpoint |-> e1,
                               registration_endpoint |-> <<"g">>]],
    [status |-> 200, body |-> [authorization_endpoint |-> <<"z">>,
                               token_endpoint |-> e1]],
    [status |-> 500, body |-> [authorization_endpoint |-> <<"z">>,
                               token_endpoint |-> e1,
                               registration_endpoint |-> <<"g">>]] }

RegistrationResponses ==
  { [status |-> 201, body |-> [client_id |-> c1]],
    [status |-> 200, body |-> [client_name |-> <<"n">>]],
    [status |-> 400, body |-> [client_id |-> c1]] }

\* Requests a browser (or anything else on the machine) can send to the
\* callback server: the path and the query parameters present
CallbackRequests ==
  { [path |-> "/favicon.ico", query |-> [code |-> code1, state |-> s1]],
    [path |-> "/callback", query |-> [error |-> denied]],
    [path |-> "/callback", query |-> [error |-> denied, code |-> code1, state |-> s1]],
    [path |-> "/callback", query |-> [code |-> code1, state |-> s1]],
    [path |-> "/callback", query |-> [code |-> code1, state |-> s2]],
    [path |-> "/callback", query |-> [code |-> code1]],
    [path |-> "/callback", query |-> [state |-> s1]],
    [path |-> "/callback", query |-> [x |-> <<>>]] }

\* url.searchParams.get(name): null when the parameter is absent
searchParamsGet(query, name) ==
  IF name \in DOMAIN query THEN query[name] ELSE Null


\* -------------------------------------------------------------- state

VARIABLES
  envFile,          \* the .env file in the working directory
  envAtStart,       \* the .env file when the current run started
  prog,             \* the script of the current run: "none", "auth", "refresh"
  pc,               \* where the script's main is: an await, "done", "exited"
  exitCode,         \* the process's exit status once pc = "exited"
  error,            \* the error the run reported ("" when none)
  requests,         \* the HTTP requests the run has sent, in order
  endpoints,        \* auth.js main: the discovered endpoints
  clientId,         \* auth.js main: the registered client id
  codeVerifier,     \* auth.js main: the PKCE verifier
  state,            \* auth.js main: the generated state
  authUrl,          \* auth.js openBrowser: the URLs printed, in order
  port,             \* port 3334: "free", "held" (by this run), "busy" (by another process)
  server,           \* the callback server: "none", "listening", "closed"
  listens,          \* how many times the run has bound the port
  closeCalls,       \* how many times the run has called server.close()
  callbackPromise,  \* <<>> while pending, <<value>> once resolved
  responses,        \* the responses the server has ended, in order of request
  received,         \* the connection attempts to port 3334 during the run
  timer,            \* the 5-minute timer: "none", "armed", "fired"
  race,             \* Promise.race: "none", "pending", "callback", "timeout"
  env,              \* refresh.js main: the variables readEnv returned
  lastSave,         \* <<>>, or <<the arguments of the latest saveToEnv call>>
  argv,             \* the arguments of the current run's command line
  clock,            \* refresh.js main: the epoch second it read (const now)
  replies,          \* the HTTP responses the run has received, in order
  firstCallback     \* <<>>, or <<the query of the first request to /callback>>

vars == <<envFile, envAtStart, prog, pc, exitCode, error, requests, endpoints,
          clientId, codeVerifier, state, authUrl, port, server, listens,
          closeCalls, callbackPromise, responses, received, timer, race, env,
          lastSave, argv, clock, replies, firstCallback>>

\* The variables of main's locals in auth.js
authLocals == <<endpoints, clientId, codeVerifier, state>>
\* The variables of the callback server and its promise
serverVars == <<server, listens, closeCalls, callbackPromise, responses, received,
                firstCallback>>

NoEndpoints ==
  [authorization_endpoint |-> Undefined, token_endpoint |-> Undefined,
   registration_endpoint |-> Undefined]

Init ==
  /\ envFile \in InitialFiles
  /\ envAtStart = envFile
  /\ prog = "none"
  /\ pc = "idle"
  /\ exitCode = 0
  /\ error = ""
  /\ requests = <<>>
  /\ endpoints = NoEndpoints
  /\ clientId = Undefined
  /\ codeVerifier = Undefined
  /\ state = Undefined
  /\ authUrl = <<>>
  /\ port = "free"
  /\ server = "none"
  /\ listens = 0
  /\ closeCalls = 0
  /\ callbackPromise = <<>>
  /\ responses = <<>>
  /\ received = 0
  /\ timer = "none"
  /\ race = "none"
  /\ env = <<>>
  /\ lastSave = <<>>
  /\ argv = <<>>
  /\ clock = 0
  /\ replies = <<>>
  /\ firstCallback = <<>>

\* The memory, timers and sockets of a process that is not running
NoProcess ==
  /\ endpoints' = NoEndpoints
  /\ clientId' = Undefined
  /\ codeVerifier' = Undefined
  /\ state' = Undefined
  /\ server' = "none"
  /\ listens' = 0
  /\ closeCalls' = 0
  /\ callbackPromise' = <<>>
  /\ responses' = <<>>
  /\ received' = 0
  /\ timer' = "none"
  /\ race' = "none"
  /\ env' = <<>>

\* process.exit(code), or the process ending with nothing left to run. The
\* operating system closes the listening socket with the process; what the
\* run sent, received and printed (requests, replies, firstCallback,
\* authUrl) stays on record.
ProcessExit(code, err) ==
  /\ pc' = "exited"
  /\ exitCode' = code
  /\ error' = err
  /\ port' = IF port = "held" THEN "free" ELSE port
  /\ NoProcess
  /\ UNCHANGED <<envAtStart, prog, argv, clock, authUrl, firstCallback>>

\* auth.js main's catch: console.error and process.exit(1)
Catch(err) == ProcessExit(1, err)

\* ------------------------------------------------- auth.js: discovery

\* A new process of auth.js; main up to its first await, where
\* discoverOAuthEndpoints has posted the probe. Between two runs the port
\* may have been taken or released by another process.
AuthStart ==
  /\ pc \in {"idle", "exited"}
  /\ replies' = <<>>
  /\ firstCallback' = <<>>
  /\ prog' = "auth"
  /\ pc' = "probe"
  /\ envAtStart' = envFile
  /\ exitCode' = 0
  /\ error' = ""
  /\ requests' = <<[to |-> "mcp"]>>
  /\ authUrl' = <<>>
  /\ port' \in {"free", "busy"}
  /\ argv' = <<>>
  /\ clock' = 0
  /\ NoProcess
  /\ UNCHANGED <<envFile, lastSave>>

\* discoverOAuthEndpoints after the probe's response
AuthProbeResponse(res) ==
  /\ prog = "auth" /\ pc = "probe"
  /\ replies' = Append(replies, res)
  /\ LET metadataMatch == has(res.wwwAuth, "resource_metadata")
     IN  IF res.status # 401
         THEN Catch("discovery: expected 401") /\ UNCHANGED <<envFile, lastSave, requests>>
         ELSE IF ~has(res, "wwwAuth")
         THEN Catch("discovery: no WWW-Authenticate")
              /\ UNCHANGED <<envFile, lastSave, requests>>
         ELSE IF ~metadataMatch
         THEN Catch("discovery: no resource_metadata")
              /\ UNCHANGED <<envFile, lastSave, requests>>
         ELSE /\ requests' = Append(requests, [to |-> "resource-metadata"])
              /\ pc' = "resource-metadata"
              /\ UNCHANGED <<envFile, lastSave, envAtStart, prog, argv, clock, exitCode, error,
                             authLocals, authUrl, port, serverVars, timer,
                             race, env>>

\* A discovery that reads the resource metadata whatever its status
AuthResourceMetadataResponseAnyStatus(res) ==
  /\ prog = "auth" /\ pc = "resource-metadata"
  /\ replies' = Append(replies, res)
  /\ LET authServerUrl ==
           IF has(res.body, "authorization_servers")
                /\ res.body.authorization_servers # <<>>
           THEN res.body.authorization_servers[1] ELSE Undefined
     IN  IF ~truthy(authServerUrl)
         THEN Catch("discovery: no authorization_servers")
              /\ UNCHANGED <<envFile, lastSave, requests>>
         ELSE /\ requests' = Append(requests, [to |-> "auth-server-metadata"])
              /\ pc' = "auth-server-metadata"
              /\ UNCHANGED <<envFile, lastSave, envAtStart, prog, argv, clock,
                             exitCode, error, authLocals, authUrl, port,
                             serverVars, timer, race, env>>

\* discoverOAuthEndpoints after the resource metadata's response
AuthResourceMetadataResponse(res) ==
  /\ prog = "auth" /\ pc = "resource-metadata"
  /\ replies' = Append(replies, res)
  /\ LET \* metadata.authorization_servers?.[0]
         authServerUrl ==
           IF has(res.body, "authorization_servers")
                /\ res.body.authorization_servers # <<>>
           THEN res.body.authorization_servers[1] ELSE Undefined
     IN  IF res.status # 200
         THEN Catch("discovery: resource metadata")
              /\ UNCHANGED <<envFile, lastSave, requests>>
         ELSE IF ~truthy(authServerUrl)
         THEN Catch("discovery: no authorization_servers")
              /\ UNCHANGED <<envFile, lastSave, requests>>
         ELSE /\ requests' = Append(requests, [to |-> "auth-server-metadata"])
              /\ pc' = "auth-server-metadata"
              /\ UNCHANGED <<envFile, lastSave, envAtStart, prog, argv, clock, exitCode, error,
                             authLocals, authUrl, port, serverVars, timer,
                             race, env>>

\* discoverOAuthEndpoints after the authorization server metadata's response,
\* and main on to registerClient's request. fetchJson(undefined) throws.
AuthServerMetadataResponse(res) ==
  /\ prog = "auth" /\ pc = "auth-server-metadata"
  /\ replies' = Append(replies, res)
  /\ LET found ==
           [authorization_endpoint |-> field(res.body, "authorization_endpoint"),
            token_endpoint |-> field(res.body, "token_endpoint"),
            registration_endpoint |-> field(res.body, "registration_endpoint")]
     IN  IF res.status # 200
         THEN Catch("discovery: auth server metadata")
              /\ UNCHANGED <<envFile, lastSave, requests>>
         ELSE IF found.registration_endpoint = Undefined
         THEN Catch("TypeError") /\ UNCHANGED <<envFile, lastSave, requests>>
         ELSE /\ endpoints' = found
              /\ requests' = Append(requests, [to |-> "registration"])
              /\ pc' = "registration"
              /\ UNCHANGED <<envFile, lastSave, envAtStart, prog, argv, clock, exitCode, error,
                             clientId, codeVerifier, state, authUrl, port,
                             serverVars, timer, race, env>>

\* main presenting the authorization URL before it awaits the server
AuthRegistrationResponseUrlFirst(res) ==
  /\ prog = "auth" /\ pc = "registration"
  /\ replies' = Append(replies, res)
  /\ IF res.status # 200 /\ res.status # 201
     THEN Catch("registration") /\ UNCHANGED <<envFile, lastSave, requests>>
     ELSE /\ clientId' = field(res.body, "client_id")
          /\ authUrl' = Append(authUrl,
                  [endpoint |-> endpoints.authorization_endpoint,
                   response_type |-> "code",
                   client_id |-> <<>>, code_challenge |-> <<>>,
                   code_challenge_method |-> "S256", state |-> <<>>])
          /\ pc' = "listen"
          /\ UNCHANGED <<envFile, lastSave, envAtStart, prog, argv, clock, exitCode, error,
                         requests, endpoints, codeVerifier, state, port,
                         serverVars, timer, race, env>>

\* registerClient after the response, and main on to startCallbackServer,
\* which creates the server and calls server.listen
AuthRegistrationResponse(res) ==
  /\ prog = "auth" /\ pc = "registration"
  /\ replies' = Append(replies, res)
  /\ IF res.status # 200 /\ res.status # 201
     THEN Catch("registration") /\ UNCHANGED <<envFile, lastSave, requests>>
     ELSE /\ clientId' = field(res.body, "client_id")
          /\ pc' = "listen"
          /\ UNCHANGED <<envFile, lastSave, envAtStart, prog, argv, clock, exitCode, error, requests,
                         endpoints, codeVerifier, state, authUrl, port,
                         serverVars, timer, race, env>>


\* ------------------------------------------- auth.js: callback server

FreshVerifiers == {v1}
FreshStates == {s1}

\* generateCodeChallenge: the S256 digest of the verifier, a one-way
\* function kept symbolic (injective on the verifiers)
generateCodeChallenge(verifier) == <<"S", "2", "5", "6">> \o verifier

\* buildAuthUrl: the query parameters it sets on the authorization endpoint
buildAuthUrl(authorizationEndpoint, client, codeChallenge, st) ==
  [endpoint |-> authorizationEndpoint, response_type |-> "code",
   client_id |-> text(client), code_challenge |-> codeChallenge,
   code_challenge_method |-> "S256", state |-> st]

\* A startCallbackServer that falls back to another port when 3334 is taken
AuthListenResultOtherPort(verifier, st, otherError) ==
  /\ prog = "auth" /\ pc = "listen"
  /\ UNCHANGED replies
  /\ IF otherError
     THEN Catch("listen error") /\ UNCHANGED <<envFile, lastSave, requests>>
     ELSE IF endpoints.authorization_endpoint = Undefined
     THEN Catch("TypeError") /\ UNCHANGED <<envFile, lastSave, requests>>
     ELSE /\ server' = "listening"
          /\ port' = IF port = "free" THEN "held" ELSE port
          /\ listens' = listens + 1
          /\ codeVerifier' = verifier
          /\ state' = st
          /\ authUrl' = Append(authUrl,
                  buildAuthUrl(endpoints.authorization_endpoint, clientId,
                               generateCodeChallenge(verifier), st))
          /\ pc' = "browser"
          /\ UNCHANGED <<envFile, lastSave, envAtStart, prog, argv, clock, exitCode, error, requests,
                         endpoints, clientId, closeCalls, callbackPromise,
                         responses, received, firstCallback, timer, race,
                         env>>

\* server.listen's outcome. 'listening': startCallbackServer resolves and
\* main goes on to the PKCE values, buildAuthUrl (new URL(undefined) throws)
\* and openBrowser, which prints the URL and awaits the launch command.
\* 'error': startCallbackServer rejects, EADDRINUSE told apart.
AuthListenResult(verifier, st, otherError) ==
  /\ prog = "auth" /\ pc = "listen"
  /\ UNCHANGED replies
  /\ IF port = "busy"
     THEN Catch("port in use") /\ UNCHANGED <<envFile, lastSave, requests>>
     ELSE IF otherError
     THEN Catch("listen error") /\ UNCHANGED <<envFile, lastSave, requests>>
     ELSE IF endpoints.authorization_endpoint = Undefined
     THEN Catch("TypeError") /\ UNCHANGED <<envFile, lastSave, requests>>
     ELSE /\ server' = "listening"
          /\ port' = "held"
          /\ listens' = listens + 1
          /\ codeVerifier' = verifier
          /\ state' = st
          /\ authUrl' = Append(authUrl,
                  buildAuthUrl(endpoints.authorization_endpoint, clientId,
                               generateCodeChallenge(verifier), st))
          /\ pc' = "browser"
          /\ UNCHANGED <<envFile, lastSave, envAtStart, prog, argv, clock, exitCode, error, requests,
                         endpoints, clientId, closeCalls, callbackPromise,
                         responses, received, firstCallback, timer, race,
                         env>>

\* A result slot that any later callback request overwrites
callbackOverwrite(promise, value) == <<value>>

\* callbackResolve(value): a promise is settled once, later calls do nothing
callbackResolve(promise, value) ==
  IF promise = <<>> THEN <<value>> ELSE promise

\* A handler that answers every path as the callback
anyPath(pathname) == TRUE

\* url.pathname === '/callback'
isCallbackPath(pathname) == pathname = "/callback"

\* An error parameter that counts only when no code came with it
reportsErrorWithoutCode(query) ==
  truthy(searchParamsGet(query, "error")) /\ ~truthy(searchParamsGet(query, "code"))

\* if (error), on the request's error parameter
reportsError(query) == truthy(searchParamsGet(query, "error"))

\* The request handler of createServer, for one request. res.end hands the
\* response to the socket; it is flushed later (ServerResponseFinish).
HandleRequest(req) ==
  /\ prog = "auth" /\ pc # "exited"
  /\ UNCHANGED replies
  /\ server = "listening"
  /\ received < MaxRequests
  /\ received' = received + 1
  /\ LET code == searchParamsGet(req.query, "code")
         st == searchParamsGet(req.query, "state")
         err == searchParamsGet(req.query, "error")
         first == IF firstCallback = <<>> THEN <<req.query>> ELSE firstCallback
     IN  IF ~isCallbackPath(req.path)
         THEN /\ responses' = Append(responses,
                    [path |-> req.path, status |-> 404, finished |-> FALSE,
                     closeOnFinish |-> FALSE])
              /\ UNCHANGED <<callbackPromise, race, firstCallback>>
         ELSE IF reportsError(req.query)
         THEN /\ responses' = Append(responses,
                    [path |-> req.path, status |-> 400, finished |-> FALSE,
                     closeOnFinish |-> FALSE])
              /\ callbackPromise' = callbackResolve(callbackPromise, [error |-> err])
              /\ race' = IF race = "pending" THEN "callback" ELSE race
              /\ firstCallback' = first
         ELSE /\ responses' = Append(responses,
                    [path |-> req.path, status |-> 200, finished |-> FALSE,
                     closeOnFinish |-> TRUE])
              /\ callbackPromise' =
                   callbackResolve(callbackPromise, [code |-> code, state |-> st])
              /\ race' = IF race = "pending" THEN "callback" ELSE race
              /\ firstCallback' = first
  /\ UNCHANGED <<envFile, lastSave, envAtStart, prog, argv, clock, pc, exitCode,
                 error, requests, authLocals, authUrl, port, server, listens,
                 closeCalls, timer, env>>

\* A connection attempt once the server has stopped listening is refused:
\* no handler runs.
ConnectionRefused ==
  /\ prog = "auth" /\ pc # "exited"
  /\ UNCHANGED replies
  /\ server = "closed"
  /\ received < MaxRequests
  /\ received' = received + 1
  /\ UNCHANGED <<envFile, lastSave, envAtStart, prog, argv, clock, pc, exitCode, error, requests,
                 authLocals, authUrl, port, server, listens, closeCalls,
                 callbackPromise, responses, firstCallback, timer, race, env>>

\* The 'finish' event of response i: the response has been handed to the
\* operating system; on the success page's response the listener registered
\* for it calls server.close().
ServerResponseFinish(i) ==
  /\ prog = "auth" /\ pc # "exited"
  /\ UNCHANGED replies
  /\ i \in 1..Len(responses)
  /\ ~responses[i].finished
  /\ responses' = [responses EXCEPT ![i].finished = TRUE]
  /\ IF responses[i].closeOnFinish
     THEN /\ closeCalls' = closeCalls + 1
          /\ server' = "closed"
          /\ port' = IF port = "held" THEN "free" ELSE port
     ELSE UNCHANGED <<closeCalls, server, port>>
  /\ UNCHANGED <<envFile, lastSave, envAtStart, prog, argv, clock, pc, exitCode, error, requests,
                 authLocals, authUrl, listens, callbackPromise, received,
                 firstCallback, timer, race, env>>

\* --------------------------------------------- auth.js: main after the URL

\* An openBrowser that lets the launch command's failure reach main's catch
AuthBrowserReturnsOrThrows(launched) ==
  /\ prog = "auth" /\ pc = "browser"
  /\ UNCHANGED replies
  /\ IF ~launched
     THEN Catch("browser") /\ UNCHANGED <<envFile, lastSave, requests>>
     ELSE /\ pc' = "wait"
          /\ timer' = "armed"
          /\ race' = IF callbackPromise # <<>> THEN "callback" ELSE "pending"
          /\ UNCHANGED <<envFile, lastSave, envAtStart, prog, argv, clock, exitCode, error, requests,
                         authLocals, authUrl, port, serverVars, env>>

\* openBrowser's await of the launch command returns (its failure is
\* swallowed); main creates the 5-minute timer and races it against the
\* callback promise, which may already be resolved.
AuthBrowserReturns(launched) ==
  /\ prog = "auth" /\ pc = "browser"
  /\ UNCHANGED replies
  /\ pc' = "wait"
  /\ timer' = "armed"
  /\ race' = IF callbackPromise # <<>> THEN "callback" ELSE "pending"
  /\ UNCHANGED <<envFile, lastSave, envAtStart, prog, argv, clock, exitCode, error, requests,
                 authLocals, authUrl, port, serverVars, env>>

\* A timer whose rejection is not part of the race
TimerFiresUnraced ==
  /\ prog = "auth" /\ pc # "exited"
  /\ UNCHANGED replies
  /\ timer = "armed"
  /\ timer' = "fired"
  /\ UNCHANGED <<envFile, lastSave, envAtStart, prog, argv, clock, pc, exitCode, error,
                 requests, authLocals, authUrl, port, serverVars, race, env>>

\* A timer whose rejection replaces the outcome of a race already won
TimerFiresOverrides ==
  /\ prog = "auth" /\ pc # "exited"
  /\ UNCHANGED replies
  /\ timer = "armed"
  /\ timer' = "fired"
  /\ race' = IF race \in {"pending", "callback"} THEN "timeout" ELSE race
  /\ UNCHANGED <<envFile, lastSave, envAtStart, prog, argv, clock, pc, exitCode, error, requests,
                 authLocals, authUrl, port, serverVars, env>>

\* The timer's callback: rejects authTimeout. A settled race ignores it.
TimerFires ==
  /\ prog = "auth" /\ pc # "exited"
  /\ UNCHANGED replies
  /\ timer = "armed"
  /\ timer' = "fired"
  /\ race' = IF race = "pending" THEN "timeout" ELSE race
  /\ UNCHANGED <<envFile, lastSave, envAtStart, prog, argv, clock, pc, exitCode, error, requests,
                 authLocals, authUrl, port, serverVars, env>>

\* A request that posts the challenge where the verifier belongs
exchangeCodeRequestChallenge(code, client, verifier) ==
  [to |-> "token", grant_type |-> "authorization_code", code |-> code,
   client_id |-> text(client), code_verifier |-> generateCodeChallenge(verifier)]

\* exchangeCode's request: the form fields it posts
exchangeCodeRequest(code, client, verifier) ==
  [to |-> "token", grant_type |-> "authorization_code", code |-> code,
   client_id |-> text(client), code_verifier |-> verifier]

\* The state check with a truthiness guard in front: an absent state passes
stateMismatchWhenPresent(callback, st) ==
  truthy(field(callback, "state")) /\ field(callback, "state") # st

\* main's check of the callback's state against the generated one
stateMismatch(callback, st) == field(callback, "state") # st

\* main after `await Promise.race(...)`: a timeout is thrown into the catch;
\* a callback is checked for error, then for its state, and exchangeCode
\* posts the token request (fetchJson(undefined) throws).
AuthAfterRace ==
  /\ prog = "auth" /\ pc = "wait"
  /\ UNCHANGED replies
  /\ race \in {"callback", "timeout"}
  /\ LET callback == callbackPromise[1]
     IN  IF race = "timeout"
         THEN Catch("timeout") /\ UNCHANGED <<envFile, lastSave, requests>>
         ELSE IF truthy(field(callback, "error"))
         THEN Catch("oauth error") /\ UNCHANGED <<envFile, lastSave, requests>>
         ELSE IF stateMismatch(callback, state)
         THEN Catch("state mismatch") /\ UNCHANGED <<envFile, lastSave, requests>>
         ELSE IF endpoints.token_endpoint = Undefined
         THEN Catch("TypeError") /\ UNCHANGED <<envFile, lastSave, requests>>
         ELSE /\ requests' = Append(requests,
                    exchangeCodeRequest(callback.code, clientId, codeVerifier))
              /\ pc' = "exchange"
              /\ UNCHANGED <<envFile, lastSave, envAtStart, prog, argv, clock, exitCode, error,
                             authLocals, authUrl, port, serverVars, timer,
                             race, env>>

\* A check of the status alone
exchangeCodeOkStatusOnly(res) == res.status = 200

\* exchangeCode's checks of the token endpoint's response
exchangeCodeOk(res) ==
  res.status = 200 /\ truthy(field(res.body, "access_token"))

\* A main that writes what the token endpoint answered before checking it
AuthTokenResponseSaveFirst(res, now) ==
  /\ prog = "auth" /\ pc = "exchange"
  /\ replies' = Append(replies, res)
  /\ envFile' = saveToEnv(envFile, res.body, clientId,
                          endpoints.token_endpoint, now)
  /\ IF ~exchangeCodeOk(res)
     THEN Catch("token exchange") /\ UNCHANGED <<lastSave, requests>>
     ELSE /\ lastSave' = <<[tokens |-> res.body, clientId |-> clientId,
                            tokenEndpoint |-> endpoints.token_endpoint,
                            now |-> now]>>
          /\ pc' = "setup"
          /\ UNCHANGED <<envAtStart, prog, argv, clock, exitCode, error, requests,
                         authLocals, authUrl, port, serverVars, timer, race,
                         env>>

\* exchangeCode after the response, then saveToEnv, then setupMcp up to its
\* prompt
AuthTokenResponse(res, now) ==
  /\ prog = "auth" /\ pc = "exchange"
  /\ replies' = Append(replies, res)
  /\ IF ~exchangeCodeOk(res)
     THEN Catch("token exchange") /\ UNCHANGED <<envFile, lastSave, requests>>
     ELSE /\ envFile' = saveToEnv(envFile, res.body, clientId,
                                  endpoints.token_endpoint, now)
          /\ lastSave' = <<[tokens |-> res.body, clientId |-> clientId,
                            tokenEndpoint |-> endpoints.token_endpoint,
                            now |-> now]>>
          /\ pc' = "setup"
          /\ UNCHANGED <<envAtStart, prog, argv, clock, exitCode, error, requests,
                         authLocals, authUrl, port, serverVars, timer, race,
                         env>>

\* What the user types at setupMcp's prompt: Claude Code, Cursor, skip
\* ("3" configures both and "" skips as well)
SetupAnswers == {"1", "2", "4"}

\* setupMcp after the answer: configureClaudeCode ("1", "3") and
\* configureCursor ("2", "3") throw when the command or the write fails;
\* main then returns.
AuthSetupAnswer(answer, configureFails) ==
  /\ prog = "auth" /\ pc = "setup"
  /\ UNCHANGED replies
  /\ IF answer \in {"1", "2", "3"} /\ configureFails
     THEN Catch("setup") /\ UNCHANGED <<envFile, lastSave, requests>>
     ELSE /\ pc' = "done"
          /\ UNCHANGED <<envFile, lastSave, envAtStart, prog, argv, clock, exitCode, error, requests,
                         authLocals, authUrl, port, serverVars, timer, race,
                         env>>

\* main has returned and nothing keeps the event loop alive (no armed
\* timer, no listening server, no response being written): exit status 0
AuthEventLoopEmpty ==
  /\ prog = "auth" /\ pc = "done"
  /\ UNCHANGED replies
  /\ timer # "armed"
  /\ server # "listening"
  /\ \A i \in 1..Len(responses) : responses[i].finished
  /\ ProcessExit(0, "")
  /\ UNCHANGED <<envFile, lastSave, requests>>

\* ---------------------------------------------------------- refresh.js

\* The still-valid margin of refresh.js main, in seconds
ValidMargin == 60

\* requestRefresh's request: the form fields it posts
requestRefreshRequest(refreshToken, client) ==
  [to |-> "token", grant_type |-> "refresh_token",
   refresh_token |-> refreshToken, client_id |-> client]

\* The short cut taken from exactly the margin on (secondsLeft >= 60)
stillValidFromMargin(expiresText, now) ==
  LET t == IF truthy(expiresText) THEN expiresText ELSE <<"0">>
  IN  ~parseIntIsNaN(t) /\ parseInt(t) - now >= ValidMargin

\* secondsLeft > 60 : false for a NaN expiry
stillValid(expiresText, now) ==
  LET t == IF truthy(expiresText) THEN expiresText ELSE <<"0">>
  IN  ~parseIntIsNaN(t) /\ parseInt(t) - now > ValidMargin

\* A check that looks at the token endpoint only
missingEndpointOnly(loaded) ==
  ~truthy(getKey(loaded, GRANOLA_TOKEN_ENDPOINT))

\* !GRANOLA_TOKEN_ENDPOINT || !GRANOLA_CLIENT_ID
missingEndpointOrClient(loaded) ==
  ~truthy(getKey(loaded, GRANOLA_TOKEN_ENDPOINT))
    \/ ~truthy(getKey(loaded, GRANOLA_CLIENT_ID))

\* A new process of refresh.js; main up to its await: readEnv, the checks
\* for refresh material, the still-valid short cut, then requestRefresh's
\* request
RefreshStart(force, now) ==
  /\ pc \in {"idle", "exited"}
  /\ replies' = <<>>
  /\ firstCallback' = <<>>
  /\ prog' = "refresh"
  /\ envAtStart' = envFile
  /\ authUrl' = <<>>
  /\ argv' = IF force THEN <<"--force">> ELSE <<>>
  /\ clock' = now
  /\ UNCHANGED <<envFile, lastSave, port>>
  /\ LET loaded == readEnv(envFile)
         exit(code, err) ==
           /\ pc' = "exited" /\ exitCode' = code /\ error' = err
           /\ requests' = <<>>
           /\ NoProcess
     IN  IF ~truthy(getKey(loaded, GRANOLA_REFRESH_TOKEN))
         THEN exit(1, "no refresh token")
         ELSE IF missingEndpointOrClient(loaded)
         THEN exit(1, "missing token endpoint or client id")
         ELSE IF stillValid(getKey(loaded, GRANOLA_TOKEN_EXPIRES_AT), now)
                   /\ ~force
         THEN exit(0, "")
         ELSE /\ pc' = "refreshing" /\ exitCode' = 0 /\ error' = ""
              /\ requests' =
                   <<requestRefreshRequest(getKey(loaded, GRANOLA_REFRESH_TOKEN),
                                           getKey(loaded, GRANOLA_CLIENT_ID))>>
              /\ env' = loaded
              /\ endpoints' = NoEndpoints
              /\ clientId' = Undefined
              /\ codeVerifier' = Undefined
              /\ state' = Undefined
              /\ server' = "none"
              /\ listens' = 0
              /\ closeCalls' = 0
              /\ callbackPromise' = <<>>
              /\ responses' = <<>>
              /\ received' = 0
              /\ timer' = "none"
              /\ race' = "none"

\* requestRefresh's checks of the token endpoint's response
requestRefreshOk(res) ==
  res.status = 200 /\ truthy(field(res.body, "access_token"))

\* requestRefresh after the response, then saveToEnv and updateMcpConfig
\* (which swallows its own failures) and the end of main, or the catch
RefreshTokenResponse(res, now) ==
  /\ prog = "refresh" /\ pc = "refreshing"
  /\ replies' = Append(replies, res)
  /\ IF ~requestRefreshOk(res)
     THEN ProcessExit(1, "refresh failed") /\ UNCHANGED <<envFile, lastSave, requests>>
     ELSE /\ envFile' = refreshSaveToEnv(envFile, res.body,
                                         getKey(env, GRANOLA_CLIENT_ID),
                                         getKey(env, GRANOLA_TOKEN_ENDPOINT), now)
          /\ lastSave' = <<[tokens |-> res.body,
                            clientId |-> getKey(env, GRANOLA_CLIENT_ID),
                            tokenEndpoint |-> getKey(env, GRANOLA_TOKEN_ENDPOINT),
                            now |-> now]>>
          /\ ProcessExit(0, "")
          /\ UNCHANGED requests

\* ---------------------------------------------------------------- spec

Next ==
  \/ AuthStart
  \/ \E res \in ProbeResponses : AuthProbeResponse(res)
  \/ \E res \in ResourceMetadataResponses : AuthResourceMetadataResponse(res)
  \/ \E res \in AuthServerMetadataResponses : AuthServerMetadataResponse(res)
  \/ \E res \in RegistrationResponses : AuthRegistrationResponse(res)
  \/ \E verifier \in FreshVerifiers, st \in FreshStates, otherError \in BOOLEAN :
       AuthListenResult(verifier, st, otherError)
  \/ \E req \in CallbackRequests : HandleRequest(req)
  \/ ConnectionRefused
  \/ \E i \in 1..MaxRequests : ServerResponseFinish(i)
  \/ \E launched \in BOOLEAN : AuthBrowserReturns(launched)
  \/ TimerFires
  \/ AuthAfterRace
  \/ \E res \in TokenResponses, now \in SaveTimes : AuthTokenResponse(res, now)
  \/ \E answer \in SetupAnswers, configureFails \in BOOLEAN :
       AuthSetupAnswer(answer, configureFails)
  \/ AuthEventLoopEmpty
  \/ \E force \in BOOLEAN, now \in Times : RefreshStart(force, now)
  \/ \E res \in TokenResponses, now \in SaveTimes : RefreshTokenResponse(res, now)

Spec == Init /\ [][Next]_vars

\* ------------------------------------------------- refresh.js on its own

\* Credential files a run of refresh.js can find besides InitialFiles:
\* complete refresh material with no expiry, with an expiry in the past,
\* with an expiry that is not a number; files that lack the client id or
\* the token endpoint (absent or empty), still valid or expired; files
\* whose refresh token is empty or absent.
RefreshFiles ==
  InitialFiles \cup
  { FileOf(join(<< kv(GRANOLA_ACCESS_TOKEN, a2),
                   kv(GRANOLA_REFRESH_TOKEN, <<>>),
                   kv(GRANOLA_CLIENT_ID, c1),
                   kv(GRANOLA_TOKEN_ENDPOINT, e1) >>, NL) \o <<NL>>),
    FileOf(join(<< kv(GRANOLA_REFRESH_TOKEN, r0),
                   kv(GRANOLA_CLIENT_ID, c1),
                   kv(GRANOLA_TOKEN_ENDPOINT, e1) >>, NL) \o <<NL>>),
    FileOf(join(<< kv(GRANOLA_REFRESH_TOKEN, r0),
                   kv(GRANOLA_TOKEN_EXPIRES_AT, String(900)),
                   kv(GRANOLA_CLIENT_ID, c1),
                   kv(GRANOLA_TOKEN_ENDPOINT, e1) >>, NL) \o <<NL>>),
    FileOf(join(<< kv(GRANOLA_REFRESH_TOKEN, r0),
                   kv(GRANOLA_TOKEN_EXPIRES_AT, <<"x">>),
                   kv(GRANOLA_CLIENT_ID, c1),
                   kv(GRANOLA_TOKEN_ENDPOINT, e1) >>, NL) \o <<NL>>),
    FileOf(join(<< kv(GRANOLA_REFRESH_TOKEN, r0),
                   kv(GRANOLA_TOKEN_EXPIRES_AT, String(4601)),
                   kv(GRANOLA_TOKEN_ENDPOINT, e1) >>, NL) \o <<NL>>),
    FileOf(join(<< kv(GRANOLA_REFRESH_TOKEN, r0),
                   kv(GRANOLA_TOKEN_EXPIRES_AT, String(900)),
                   kv(GRANOLA_CLIENT_ID, c1) >>, NL) \o <<NL>>),
    FileOf(join(<< kv(GRANOLA_REFRESH_TOKEN, r0),
                   kv(GRANOLA_TOKEN_EXPIRES_AT, String(4601)),
                   kv(GRANOLA_CLIENT_ID, <<>>),
                   kv(GRANOLA_TOKEN_ENDPOINT, e1) >>, NL) \o <<NL>>),
    FileOf(join(<< kv(GRANOLA_TOKEN_EXPIRES_AT, String(4601)),
                   kv(GRANOLA_CLIENT_ID, c1),
                   kv(GRANOLA_TOKEN_ENDPOINT, e1) >>, NL) \o <<NL>>) }

\* As Init, over the files of RefreshFiles
RefreshInit ==
  /\ envFile \in RefreshFiles
  /\ envAtStart = envFile
  /\ prog = "none"
  /\ pc = "idle"
  /\ exitCode = 0
  /\ error = ""
  /\ requests = <<>>
  /\ endpoints = NoEndpoints
  /\ clientId = Undefined
  /\ codeVerifier = Undefined
  /\ state = Undefined
  /\ authUrl = <<>>
  /\ port = "free"
  /\ server = "none"
  /\ listens = 0
  /\ closeCalls = 0
  /\ callbackPromise = <<>>
  /\ responses = <<>>
  /\ received = 0
  /\ timer = "none"
  /\ race = "none"
  /\ env = <<>>
  /\ lastSave = <<>>
  /\ argv = <<>>
  /\ clock = 0
  /\ replies = <<>>
  /\ firstCallback = <<>>

RefreshNext ==
  \/ \E force \in BOOLEAN, now \in Times : RefreshStart(force, now)
  \/ \E res \in TokenResponses, now \in SaveTimes : RefreshTokenResponse(res, now)

\* Runs of refresh.js only, one after the other
RefreshSpec == RefreshInit /\ [][RefreshNext]_vars

\* ---------------------------------------- auth.js without a browser launcher

\* randomBytes gives another verifier and another state on every attempt
AttemptVerifiers == {v1, v2}
AttemptStates == {s1, s2}

\* As Init, in a directory without a credential file
AttemptInit == Init /\ envFile = NoFile

\* As Next for auth.js, on a machine where the launch command of openBrowser
\* fails every time
AttemptNext ==
  \/ AuthStart
  \/ \E res \in ProbeResponses : AuthProbeResponse(res)
  \/ \E res \in ResourceMetadataResponses : AuthResourceMetadataResponse(res)
  \/ \E res \in AuthServerMetadataResponses : AuthServerMetadataResponse(res)
  \/ \E res \in RegistrationResponses : AuthRegistrationResponse(res)
  \/ \E verifier \in AttemptVerifiers, st \in AttemptStates, otherError \in BOOLEAN :
       AuthListenResult(verifier, st, otherError)
  \/ \E req \in CallbackRequests : HandleRequest(req)
  \/ ConnectionRefused
  \/ \E i \in 1..MaxRequests : ServerResponseFinish(i)
  \/ AuthBrowserReturns(FALSE)
  \/ TimerFires
  \/ AuthAfterRace
  \/ \E res \in TokenResponses, now \in SaveTimes : AuthTokenResponse(res, now)
  \/ \E answer \in SetupAnswers, configureFails \in BOOLEAN :
       AuthSetupAnswer(answer, configureFails)
  \/ AuthEventLoopEmpty

\* Attempts of auth.js only, one after the other
AttemptSpec == AttemptInit /\ [][AttemptNext]_vars

\* ------------------------------------------- auth.js: what is sure to happen

\* As AttemptNext, with launch commands that succeed as well
WaitNext == AttemptNext \/ AuthBrowserReturns(TRUE)

\* What happens sooner or later once the URL has been presented. The event
\* loop: an armed timer fires, a written response is flushed, main resumes
\* after a settled race, a process with nothing left to run ends. The
\* surroundings, in the run's favour: the token endpoint answers and the
\* user answers setupMcp's prompt, so main stays at neither await for ever.
\* The launch command is another program, awaited without a time limit:
\* nothing makes execAsync's promise settle.
WaitFairness ==
  /\ WF_vars(TimerFires)
  /\ WF_vars(\E i \in 1..MaxRequests : ServerResponseFinish(i))
  /\ WF_vars(AuthAfterRace)
  /\ WF_vars(AuthEventLoopEmpty)
  /\ []<>(pc \notin {"exchange", "setup"})

\* Attempts of auth.js under that scheduling
WaitSpec == AttemptInit /\ [][WaitNext]_vars /\ WaitFairness


\* --------------------------------------------------------------- claims

isTokenRequest(r) == r.to = "token"
tokenRequests(log) == {i \in 1..Len(log) : isTokenRequest(log[i])}

\* C1: main sends the token request only when the callback's state equals
\* the generated state exactly; with a differing (or absent) state the run
\* exits 1 without a token request and without writing .env, and the error
\* reported for a callback that carries no error is the state mismatch.
C1_TokenRequestOnlyOnMatchingState ==
  [][ (prog = "auth" /\ pc = "wait" /\ pc' # "wait" /\ race = "callback")
        => LET callback == callbackPromise[1]
           IN  /\ tokenRequests(requests) = {}
               /\ tokenRequests(requests') # {}
                    => field(callback, "state") = state
               /\ field(callback, "state") # state
                    => /\ pc' = "exited" /\ exitCode' = 1
                       /\ tokenRequests(requests') = {}
                       /\ envFile' = envAtStart
                       /\ ~truthy(field(callback, "error"))
                            => error' = "state mismatch" ]_vars

\* C1's case: a run of auth.js has ended on a state mismatch
C1_Witness ==
  prog = "auth" /\ pc = "exited" /\ error = "state mismatch" /\ exitCode = 1

\* C2: once a request to the callback path has resolved the callback
\* promise, no later request changes the value, and the race main awaits
\* settles once: the outcome main sees is the first request's.
C2_CallbackResolvedOnce ==
  [][ (prog = "auth" /\ pc' # "exited")
        => /\ callbackPromise # <<>> => callbackPromise' = callbackPromise
           /\ race \in {"callback", "timeout"} => race' = race ]_vars

\* C2's case: a second request to the callback path has been answered
\* after the first one resolved the promise
C2_Witness ==
  /\ prog = "auth" /\ callbackPromise # <<>>
  /\ Len(responses) = 2
  /\ responses[1].status # 404 /\ responses[2].status # 404
  /\ has(callbackPromise[1], "error") /\ responses[2].status = 200

\* C3: whenever the authorization URL has been presented the server of this
\* run has been bound and is (or, after a served callback, was) listening;
\* a run that ended on a bind failure has presented no URL.
C3_ListeningBeforeUrl ==
  /\ (prog = "auth" /\ pc # "exited" /\ authUrl # <<>>)
       => listens = 1 /\ server \in {"listening", "closed"}
  /\ (prog = "auth" /\ pc = "exited" /\ error \in {"port in use", "listen error"})
       => authUrl = <<>>

\* C3's case: the URL has just been presented, the server listening
C3_Witness ==
  prog = "auth" /\ pc = "browser" /\ authUrl # <<>> /\ server = "listening"
    /\ port = "held"

\* C4: a timer that fires while no callback has resolved the promise wins
\* the race, and main then exits 1 with the timeout error, having sent no
\* token request and written nothing; the port is no longer held.
C4_TimeoutAborts ==
  [][ /\ (prog = "auth" /\ pc = "wait" /\ timer = "armed" /\ timer' = "fired"
            /\ callbackPromise = <<>>)
           => race' = "timeout"
      /\ (prog = "auth" /\ pc = "wait" /\ pc' # "wait" /\ race = "timeout")
           => /\ pc' = "exited" /\ exitCode' = 1 /\ error' = "timeout"
              /\ tokenRequests(requests') = {}
              /\ envFile' = envAtStart
              /\ port' = "free" ]_vars

\* C4's case: a run of auth.js has ended on the timeout
C4_Witness ==
  prog = "auth" /\ pc = "exited" /\ error = "timeout" /\ exitCode = 1
    /\ port = "free"

\* The callback server has been closed, or a close is registered on a
\* response's 'finish'
ShutdownBegun ==
  server = "closed" \/ \E i \in 1..Len(responses) : responses[i].closeOnFinish

\* C5: the run binds the port at most once; a callback request carrying
\* `error` begins the server's shutdown; and a run that bound the port has
\* called server.close() exactly once when it ends, on every exit path.
C5_ListenerReleasedOnEveryPath ==
  [][ /\ listens' <= 1
      /\ (prog = "auth" /\ callbackPromise = <<>> /\ callbackPromise' # <<>>
            /\ has(callbackPromise'[1], "error"))
           => ShutdownBegun'
      /\ (prog = "auth" /\ pc # "exited" /\ pc' = "exited" /\ listens = 1)
           => closeCalls = 1 ]_vars

\* C6: when the run ends, every response the server gave to a callback
\* request (success or failure page) has been flushed ('finish'), and the
\* server's own close comes with the 'finish' of the success page.
C6_ResponseDeliveredBeforeTeardown ==
  [][ /\ (prog = "auth" /\ pc # "exited" /\ pc' = "exited")
           => \A i \in 1..Len(responses) :
                responses[i].status # 404 => responses[i].finished
      /\ (prog = "auth" /\ pc' # "exited" /\ closeCalls' > closeCalls)
           => \E i \in 1..Len(responses) :
                responses[i].closeOnFinish /\ responses'[i].finished ]_vars

\* The errors of a run that failed in discovery, registration, the listener,
\* the authorization or the token request
FailuresBeforeSave ==
  { "discovery: expected 401", "discovery: no WWW-Authenticate",
    "discovery: no resource_metadata", "discovery: resource metadata",
    "discovery: no authorization_servers", "discovery: auth server metadata",
    "TypeError", "registration", "port in use", "listen error", "timeout",
    "oauth error", "state mismatch", "token exchange", "refresh failed",
    "no refresh token", "missing token endpoint or client id" }

\* C7: .env changes only in the step that receives a 200 token response with
\* an access_token (code exchange or refresh), and a run that ends in one of
\* the failures before the save leaves .env as it was when the run started.
C7_WriteOnlyAfterSuccess ==
  [][ /\ envFile' # envFile
           => /\ pc \in {"exchange", "refreshing"}
              /\ lastSave' # <<>>
              /\ truthy(field(lastSave'[1].tokens, "access_token"))
              /\ Len(requests) > 0 /\ isTokenRequest(requests[Len(requests)])
      /\ (pc # "exited" /\ pc' = "exited" /\ error' \in FailuresBeforeSave)
           => envFile' = envAtStart' /\ exitCode' = 1 ]_vars

\* C7's case: a run over an existing file has ended on a failed token
\* request (code exchange or refresh)
C7_Witness ==
  /\ pc = "exited" /\ error \in {"token exchange", "refresh failed"}
  /\ envFile.exists /\ envFile = envAtStart
  /\ tokenRequests(requests) # {}

\* The keys of a parsed file that do not start with GRANOLA_
foreignKeys(obj) == {k \in keysOf(obj) : ~startsWith(k, GRANOLA_)}

\* C8: every save (auth.js or refresh.js) leaves each key of .env that does
\* not start with GRANOLA_ in the file with the value it had; step by step,
\* so after any sequence of saves.
C8_ForeignKeysPreserved ==
  [][ envFile' # envFile
        => \A before \in {readEnv(envFile)}, after \in {readEnv(envFile')} :
             \A k \in foreignKeys(before) :
               hasKey(after, k) /\ getKey(after, k) = getKey(before, k) ]_vars

\* C8's case: a refresh has saved over a file that an earlier save had
\* written, and the foreign keys of the first file are there with their
\* values
C8_Witness ==
  /\ prog = "refresh" /\ pc = "exited" /\ envFile # envAtStart
  /\ hasKey(readEnv(envAtStart), GRANOLA_ACCESS_TOKEN)
  /\ getKey(readEnv(envFile), <<"F">>) = <<"b", " ", "=", "1">>
  /\ getKey(readEnv(envFile), <<"H", " ">>) = <<>>
  /\ getKey(readEnv(envFile), <<>>) = <<" ", "e">>

\* The five keys saveToEnv owns
OwnedKeys ==
  { GRANOLA_ACCESS_TOKEN, GRANOLA_REFRESH_TOKEN, GRANOLA_TOKEN_EXPIRES_AT,
    GRANOLA_CLIENT_ID, GRANOLA_TOKEN_ENDPOINT }

\* The lines of a file whose key starts with GRANOLA_
granolaLines(file) ==
  UNION {{i \in 1..Len(lines) : startsWith(trim(lines[i]), GRANOLA_)} :
           lines \in {split(file.content, NL)}}

\* C9: after every save (the steps that write .env) the GRANOLA_ keys of
\* .env are exactly the five owned keys, one line each, and each holds the
\* value of that saveToEnv call (access token, refresh token or '', the
\* expiry computed in that call, client id, token endpoint).
C9_OwnedKeysReplacedTogether ==
  [][ (envFile' # envFile \/ lastSave' # lastSave)
        => \A saved \in {lastSave'[1]}, loaded \in {readEnv(envFile')} :
             /\ {k \in keysOf(loaded) : startsWith(k, GRANOLA_)} = OwnedKeys
             /\ Cardinality(granolaLines(envFile')) = 5
             /\ getKey(loaded, GRANOLA_ACCESS_TOKEN) = saved.tokens.access_token
             /\ getKey(loaded, GRANOLA_REFRESH_TOKEN)
                  = refreshTokenOr(saved.tokens)
             /\ getKey(loaded, GRANOLA_TOKEN_EXPIRES_AT)
                  = String(saved.now + expiresInOr(saved.tokens))
             /\ getKey(loaded, GRANOLA_CLIENT_ID) = text(saved.clientId)
             /\ getKey(loaded, GRANOLA_TOKEN_ENDPOINT)
                  = text(saved.tokenEndpoint) ]_vars

\* C9's case: a save over a file that held a stray GRANOLA_ key and owned
\* keys with other values
C9_Witness ==
  /\ lastSave # <<>> /\ envFile # envAtStart
  /\ hasKey(readEnv(envAtStart), GRANOLA_ \o <<"X">>)
  /\ getKey(readEnv(envAtStart), GRANOLA_CLIENT_ID) = c2
  /\ getKey(readEnv(envFile), GRANOLA_CLIENT_ID) = c1

\* C10: loading what saveToEnv wrote for a token set, a client id and a
\* token endpoint gives back the same access token, refresh token, client
\* id and token endpoint, and an expiry of the save time plus the token
\* lifetime: expires_in when the response specifies it, 3600 otherwise.
C10_SaveLoadRoundTrip ==
  (lastSave # <<>> /\ lastSave[1].clientId # Undefined
     /\ lastSave[1].tokenEndpoint # Undefined)
    => LET saved == lastSave[1]
           loaded == readEnv(envFile)
           lifetime == IF has(saved.tokens, "expires_in")
                       THEN saved.tokens.expires_in ELSE DefaultExpiresIn
       IN  /\ getKey(loaded, GRANOLA_ACCESS_TOKEN) = saved.tokens.access_token
           /\ getKey(loaded, GRANOLA_REFRESH_TOKEN)
                = (IF has(saved.tokens, "refresh_token")
                   THEN saved.tokens.refresh_token ELSE <<>>)
           /\ getKey(loaded, GRANOLA_CLIENT_ID) = saved.clientId
           /\ getKey(loaded, GRANOLA_TOKEN_ENDPOINT) = saved.tokenEndpoint
           /\ ~parseIntIsNaN(getKey(loaded, GRANOLA_TOKEN_EXPIRES_AT))
           /\ parseInt(getKey(loaded, GRANOLA_TOKEN_EXPIRES_AT))
                = saved.now + lifetime

\* The loaded record holds refresh token, client id and token endpoint
hasRefreshMaterial(loaded) ==
  /\ truthy(getKey(loaded, GRANOLA_REFRESH_TOKEN))
  /\ truthy(getKey(loaded, GRANOLA_CLIENT_ID))
  /\ truthy(getKey(loaded, GRANOLA_TOKEN_ENDPOINT))

\* A step that starts a run of refresh.js
RefreshRunStarts == pc \in {"idle", "exited"} /\ prog' = "refresh"

\* C11: a run of refresh.js that finds refresh token, client id and token
\* endpoint, and an expiry that is a number or missing (read as 0), posts
\* the refresh request exactly when --force is given or the expiry is at
\* most 60 seconds after the clock; otherwise it exits 0 having sent nothing
\* and left .env alone.
C11_RefreshIffForcedOrExpiring ==
  [][ RefreshRunStarts
        => \A loaded \in {readEnv(envFile)} :
             \A stored \in {getKey(loaded, GRANOLA_TOKEN_EXPIRES_AT)} :
               (hasRefreshMaterial(loaded)
                  /\ (truthy(stored) => ~parseIntIsNaN(stored)))
                 => LET expiresAt == IF truthy(stored) THEN parseInt(stored) ELSE 0
                        forced == \E i \in 1..Len(argv') : argv'[i] = "--force"
                    IN  /\ envFile' = envFile
                        /\ IF forced \/ expiresAt <= clock' + 60
                           THEN /\ pc' = "refreshing"
                                /\ Len(requests') = 1
                                /\ isTokenRequest(requests'[1])
                                /\ requests'[1].grant_type = "refresh_token"
                           ELSE /\ pc' = "exited" /\ exitCode' = 0
                                /\ requests' = <<>> ]_vars

\* C11's case: no --force and exactly 60 seconds left: the request is sent
C11_Witness ==
  /\ prog = "refresh" /\ pc = "refreshing" /\ argv = <<>>
  /\ tokenRequests(requests) # {}
  /\ ~parseIntIsNaN(text(getKey(env, GRANOLA_TOKEN_EXPIRES_AT)))
  /\ parseInt(text(getKey(env, GRANOLA_TOKEN_EXPIRES_AT))) = clock + 60

\* C12: a run of refresh.js that finds no refresh token, no client id or no
\* token endpoint (absent or empty, or no .env at all) exits non-zero
\* having sent nothing and left .env alone, with or without --force and
\* whatever the stored expiry.
C12_MissingMaterialIsFatal ==
  [][ RefreshRunStarts
        => \A loaded \in {readEnv(envFile)} :
             ~hasRefreshMaterial(loaded)
               => /\ pc' = "exited" /\ exitCode' # 0
                  /\ requests' = <<>>
                  /\ envFile' = envFile ]_vars

\* C12's case: --force and a token valid for another hour, but no client id
C12_Witness ==
  /\ prog = "refresh" /\ pc = "exited" /\ exitCode = 1
  /\ argv = <<"--force">> /\ requests = <<>>
  /\ truthy(getKey(readEnv(envFile), GRANOLA_REFRESH_TOKEN))
  /\ truthy(getKey(readEnv(envFile), GRANOLA_TOKEN_ENDPOINT))
  /\ ~truthy(getKey(readEnv(envFile), GRANOLA_CLIENT_ID))
  /\ parseInt(getKey(readEnv(envFile), GRANOLA_TOKEN_EXPIRES_AT)) > clock + 60

\* The errors discoverOAuthEndpoints throws
DiscoveryFailures ==
  { "discovery: expected 401", "discovery: no WWW-Authenticate",
    "discovery: no resource_metadata", "discovery: resource metadata",
    "discovery: no authorization_servers", "discovery: auth server metadata" }

\* The response a discovery request must not get, by the hop it answers
discoveryRefuses(hop, r) ==
  CASE hop = "probe" ->
         \/ r.status # 401
         \/ ~has(r, "wwwAuth")
         \/ ~has(r.wwwAuth, "resource_metadata")
    [] hop = "resource-metadata" ->
         \/ r.status # 200
         \/ ~has(r.body, "authorization_servers")
         \/ r.body.authorization_servers = <<>>
    [] hop = "auth-server-metadata" -> r.status # 200

\* C13: when the probe is answered with anything but 401, or without the
\* challenge header or its resource_metadata parameter, or a metadata fetch
\* with anything but 200, or the resource metadata names no authorization
\* server, the run ends there with a discovery error and exit status 1: the
\* requests it has sent are all it ever sends, and .env is untouched.
C13_DiscoveryFailsFast ==
  [][ (prog = "auth"
         /\ pc \in {"probe", "resource-metadata", "auth-server-metadata"}
         /\ replies' # replies)
        => \A r \in {replies'[Len(replies')]} :
             discoveryRefuses(pc, r)
               => /\ pc' = "exited" /\ exitCode' = 1
                  /\ error' \in DiscoveryFailures
                  /\ requests' = requests
                  /\ envFile' = envFile ]_vars

\* C13's case: the resource metadata answered 200 without an authorization
\* server, and the run ended after its second request
C13_Witness ==
  /\ prog = "auth" /\ pc = "exited" /\ exitCode = 1
  /\ error = "discovery: no authorization_servers"
  /\ Len(requests) = 2 /\ Len(replies) = 2
  /\ replies[2].status = 200

\* C14: a registration response that is not a 200 or 201 carrying a
\* client_id ends the run with the registration error and exit status 1,
\* before the callback server is started and before a URL is built.
C14_RegistrationNeedsClientId ==
  [][ (prog = "auth" /\ pc = "registration" /\ replies' # replies)
        => \A r \in {replies'[Len(replies')]} :
             (r.status \notin {200, 201} \/ ~has(r.body, "client_id"))
               => /\ pc' = "exited" /\ exitCode' = 1
                  /\ error' = "registration"
                  /\ authUrl' = <<>> ]_vars

\* C15: the code exchange and the refresh request give a token set exactly
\* when the token endpoint answers 200 with an access_token: that body is
\* then what saveToEnv is called with; any other answer ends the run with
\* the token error and exit status 1, .env and the last save as they were.
C15_TokenSetIffOkWithAccessToken ==
  [][ (pc \in {"exchange", "refreshing"} /\ replies' # replies)
        => \A r \in {replies'[Len(replies')]} :
             IF r.status = 200 /\ has(r.body, "access_token")
             THEN /\ lastSave' # <<>> /\ lastSave'[1].tokens = r.body
                  /\ pc' = "setup" \/ (pc' = "exited" /\ exitCode' = 0)
             ELSE /\ pc' = "exited" /\ exitCode' = 1
                  /\ error' \in {"token exchange", "refresh failed"}
                  /\ envFile' = envFile
                  /\ lastSave' = lastSave ]_vars

\* C15's case: the code exchange was answered 200 without an access_token
C15_Witness ==
  /\ prog = "auth" /\ pc = "exited" /\ error = "token exchange"
  /\ replies # <<>>
  /\ replies[Len(replies)].status = 200
  /\ ~has(replies[Len(replies)].body, "access_token")
  /\ envFile = envAtStart

\* C16: when the first request to the callback path carries an error
\* parameter, the outcome is that error, also when the request carries a
\* code and the generated state as well; main then exits 1 with the OAuth
\* error, having sent no token request and left .env alone.
C16_RemoteErrorAborts ==
  [][ /\ (prog = "auth" /\ firstCallback = <<>> /\ firstCallback' # <<>>
            /\ has(firstCallback'[1], "error"))
           => /\ callbackPromise' # <<>>
              /\ has(callbackPromise'[1], "error")
              /\ callbackPromise'[1].error = firstCallback'[1].error
      /\ (prog = "auth" /\ pc = "wait" /\ pc' # "wait" /\ race = "callback"
            /\ has(firstCallback[1], "error"))
           => /\ pc' = "exited" /\ exitCode' = 1 /\ error' = "oauth error"
              /\ tokenRequests(requests') = {}
              /\ envFile' = envAtStart ]_vars

\* C16's case: the run ended on the OAuth error after a first callback
\* request with error, code and the generated state
C16_Witness ==
  /\ prog = "auth" /\ pc = "exited" /\ exitCode = 1 /\ error = "oauth error"
  /\ tokenRequests(requests) = {}
  /\ firstCallback # <<>>
  /\ has(firstCallback[1], "error") /\ has(firstCallback[1], "code")
  /\ authUrl # <<>> /\ field(firstCallback[1], "state") = authUrl[1].state

\* C17: the expiry a save stores is the clock of the save plus the
\* response's expires_in whenever the response has one, zero included, and
\* the clock plus 3600 only when it has none.
C17_ExpiresAtFromExpiresIn ==
  [][ lastSave' # lastSave
        => \A saved \in {lastSave'[1]} :
             \A stored \in {getKey(readEnv(envFile'), GRANOLA_TOKEN_EXPIRES_AT)} :
               stored = String(IF has(saved.tokens, "expires_in")
                               THEN saved.now + saved.tokens.expires_in
                               ELSE saved.now + 3600) ]_vars

\* The requests of the full flow, in main's order
StepOrder ==
  <<"mcp", "resource-metadata", "auth-server-metadata", "registration", "token">>

\* The answer with which the flow's i-th request has succeeded: the 401
\* challenge, the two metadata documents, a registration with a client_id,
\* a token set
stepSucceeded(i, r) ==
  CASE i = 1 -> r.status = 401
    [] i \in {2, 3} -> r.status = 200
    [] i = 4 -> r.status \in {200, 201} /\ has(r.body, "client_id")
    [] OTHER -> r.status = 200 /\ has(r.body, "access_token")

\* C18: in a run of auth.js the requests sent are a prefix of probe,
\* resource metadata, authorization server metadata, registration, token,
\* each sent once and only after every earlier one was answered with
\* success; the port is bound once and only after registration, the URL is
\* presented once and only on the bound server, the token request follows
\* the URL, and .env is written only in the step that receives the token
\* response. A run of refresh.js sends at most one request, the refresh
\* grant, and never discovers, registers, binds or presents a URL.
C18_FixedOrderNoRetry ==
  [][ /\ prog' = "auth"
           => /\ Len(requests') <= Len(StepOrder)
              /\ \A i \in 1..Len(requests') : requests'[i].to = StepOrder[i]
              /\ Len(replies') <= Len(requests')
              /\ Len(requests') <= Len(replies') + 1
              /\ \A i \in 1..Len(replies') :
                   i < Len(requests') => stepSucceeded(i, replies'[i])
              /\ Len(authUrl') <= 1
              /\ authUrl' # <<>> => Len(replies') >= 4
              /\ tokenRequests(requests') # {} => authUrl' # <<>>
              /\ listens' <= 1
              /\ listens' = 1
                   => Len(replies') >= 4 /\ stepSucceeded(4, replies'[4])
              /\ (pc' # "exited" /\ authUrl' # <<>>) => listens' = 1
              /\ (envFile' # envFile \/ lastSave' # lastSave)
                   => /\ Len(replies) = 4 /\ Len(replies') = 5
                      /\ stepSucceeded(5, replies'[5])
      /\ prog' = "refresh"
           => /\ Len(requests') <= 1
              /\ \A i \in 1..Len(requests') :
                   /\ isTokenRequest(requests'[i])
                   /\ requests'[i].grant_type = "refresh_token"
              /\ Len(replies') <= Len(requests')
              /\ authUrl' = <<>> /\ listens' = 0 /\ server' = "none"
              /\ (envFile' # envFile \/ lastSave' # lastSave)
                   => Len(replies) = 0 /\ Len(replies') = 1 ]_vars

\* C19: a request on a path other than /callback, whatever its query, is
\* answered 404 and changes nothing else: the callback promise, the race
\* and the first-callback record stay as they were, the server keeps
\* listening, also once the 404 has been flushed. The first request on
\* /callback, after any such requests, resolves the promise.
C19_OtherPathsAnswered404 ==
  [][ /\ (prog = "auth" /\ pc' # "exited"
            /\ Len(responses') = Len(responses) + 1)
           => \A answer \in {responses'[Len(responses')]} :
                IF answer.path # "/callback"
                THEN /\ answer.status = 404 /\ ~answer.closeOnFinish
                     /\ callbackPromise' = callbackPromise
                     /\ firstCallback' = firstCallback
                     /\ race' = race
                     /\ server' = "listening" /\ closeCalls' = closeCalls
                ELSE /\ answer.status # 404
                     /\ callbackPromise = <<>> => callbackPromise' # <<>>
      /\ (prog = "auth" /\ pc' # "exited")
           => \A i \in 1..Len(responses) :
                (responses[i].path # "/callback" /\ ~responses[i].finished
                   /\ responses'[i].finished)
                  => server' = server /\ closeCalls' = closeCalls ]_vars

\* C19's case: a request on another path, carrying a code and the state,
\* was answered 404 and flushed, and the next request, on /callback, has
\* resolved the promise
C19_Witness ==
  /\ prog = "auth" /\ pc # "exited" /\ Len(responses) = 2
  /\ responses[1].path = "/favicon.ico" /\ responses[1].status = 404
  /\ responses[1].finished
  /\ responses[2].path = "/callback" /\ responses[2].status = 200
  /\ callbackPromise = <<[code |-> code1, state |-> s1]>>
  /\ firstCallback = <<[code |-> code1, state |-> s1]>>

\* C20: when the first request to /callback carries neither code nor error,
\* with no state or with the generated state, main ends the run with an
\* error and sends no token request.
C20_NoCodeNoTokenRequest ==
  [][ (prog = "auth" /\ pc = "wait" /\ pc' # "wait" /\ race = "callback"
         /\ ~has(firstCallback[1], "code") /\ ~has(firstCallback[1], "error"))
        => /\ pc' = "exited" /\ exitCode' # 0
           /\ tokenRequests(requests') = {} ]_vars

\* Whether the text sub occurs somewhere in the text s
occursIn(sub, s) ==
  \E i \in 0..(Len(s) - Len(sub)) : slice(s, i, i + Len(sub)) = sub

\* C21: the code_verifier of a token request is the verifier whose S256
\* challenge is in the one authorization URL this run presented; the state
\* the callback is checked against is the state of that URL (a callback
\* without error goes on to the token request only with that state, and
\* ends on the state mismatch otherwise); and no save writes the verifier,
\* its challenge or the state anywhere into .env.
C21_PkceBinding ==
  [][ /\ (prog = "auth" /\ pc = "wait" /\ tokenRequests(requests') # {})
           => \A r \in {requests'[Len(requests')]} :
                /\ Len(authUrl) = 1
                /\ authUrl[1].code_challenge = generateCodeChallenge(r.code_verifier)
                /\ r.code_verifier = codeVerifier
                /\ field(callbackPromise[1], "state") = authUrl[1].state
      /\ (prog = "auth" /\ pc = "wait" /\ pc' # "wait" /\ race = "callback"
            /\ ~truthy(field(callbackPromise[1], "error"))
            /\ field(callbackPromise[1], "state") # authUrl[1].state)
           => pc' = "exited" /\ error' = "state mismatch"
      /\ (prog = "auth" /\ envFile' # envFile)
           => /\ ~occursIn(codeVerifier, envFile'.content)
              /\ ~occursIn(state, envFile'.content)
              /\ ~occursIn(authUrl[1].code_challenge, envFile'.content) ]_vars

\* C21's case: an attempt that generated the second verifier and state has
\* sent its token request and saved the answer
C21_Witness ==
  /\ prog = "auth" /\ pc = "setup" /\ envFile.exists /\ lastSave # <<>>
  /\ codeVerifier = v2 /\ state = s2
  /\ authUrl[1].state = s2
  /\ requests[Len(requests)].code_verifier = v2

\* C22: once the authorization URL has been presented the run ends, whether
\* or not a callback request arrives and whether or not the launch command
\* returns.
C22_TerminatesAfterUrl ==
  [] ((prog = "auth" /\ pc # "exited" /\ authUrl # <<>>) => <> (pc = "exited"))

\* C23: a timer that fires after a callback has won the race leaves the
\* race's outcome, main's position, the error, the exit status, the
\* requests and .env as they are; a run that has consumed a callback never
\* ends on the timeout error; and a main that has returned ends with exit
\* status 0 and .env as the save left it.
C23_RaceHasOneWinner ==
  [][ /\ (prog = "auth" /\ timer = "armed" /\ timer' = "fired" /\ race = "callback")
           => /\ race' = "callback"
              /\ pc' = pc /\ error' = error /\ exitCode' = exitCode
              /\ requests' = requests
              /\ envFile' = envFile /\ lastSave' = lastSave
      /\ (prog = "auth" /\ pc \in {"exchange", "setup", "done"} /\ pc' = "exited")
           => error' # "timeout"
      /\ (prog = "auth" /\ pc = "done" /\ pc' = "exited")
           => exitCode' = 0 /\ error' = "" /\ envFile' = envFile ]_vars

\* C23's case: the callback was consumed, the tokens saved and main has
\* returned; the timer, never cancelled, has fired since
C23_Witness ==
  /\ prog = "auth" /\ pc = "done" /\ race = "callback" /\ timer = "fired"
  /\ lastSave # <<>> /\ envFile.exists /\ error = ""

\* The errors of a server.listen that failed
BindFailures == {"port in use", "listen error"}

\* C24: when port 3334 is taken, startCallbackServer's outcome ends the run
\* with exit status 1 and the port-in-use error; any other bind error ends
\* it with exit status 1 and another error; the run binds only the free
\* port 3334; and a run that ended on either failure never bound a port,
\* presented no URL, sent no token request and left .env alone.
C24_BindFailureIsFatal ==
  [][ /\ (prog = "auth" /\ pc = "listen" /\ pc' # "listen")
           => /\ port = "busy"
                   => pc' = "exited" /\ exitCode' = 1 /\ error' = "port in use"
              /\ error' = "port in use" => port = "busy"
              /\ error' = "listen error"
                   => port # "busy" /\ pc' = "exited" /\ exitCode' = 1
              /\ server' = "listening" => port = "free" /\ port' = "held"
      /\ (prog' = "auth" /\ pc' = "exited" /\ error' \in BindFailures)
           => /\ exitCode' = 1
              /\ listens' = 0 /\ server' = "none"
              /\ authUrl' = <<>>
              /\ tokenRequests(requests') = {}
              /\ envFile' = envAtStart' ]_vars

\* C24's case: a run registered its client, found port 3334 taken and ended
C24_Witness ==
  /\ prog = "auth" /\ pc = "exited" /\ exitCode = 1 /\ error = "port in use"
  /\ port = "busy" /\ authUrl = <<>>
  /\ Len(requests) = 4 /\ requests[4].to = "registration"

\* C25: where the launch command fails, openBrowser's return leaves main
\* waiting on the callback with the server as it was and nothing reported;
\* a callback with a code, without error and with the generated state then
\* takes main to the token request for that code; and a 200 answer with an
\* access_token is saved, its access token on a line of .env.
C25_LaunchFailureNotFatal ==
  [][ /\ (prog = "auth" /\ pc = "browser" /\ pc' # "browser")
           => /\ pc' = "wait" /\ exitCode' = 0 /\ error' = ""
              /\ server' = server /\ callbackPromise' = callbackPromise
              /\ race' \in {"pending", "callback"}
      /\ (prog = "auth" /\ pc = "wait" /\ pc' # "wait" /\ race = "callback"
            /\ truthy(field(callbackPromise[1], "code"))
            /\ ~has(callbackPromise[1], "error")
            /\ field(callbackPromise[1], "state") = state)
           => /\ pc' = "exchange"
              /\ isTokenRequest(requests'[Len(requests')])
              /\ requests'[Len(requests')].code = callbackPromise[1].code
      /\ (prog = "auth" /\ pc = "exchange" /\ replies' # replies)
           => \A r \in {replies'[Len(replies')]} :
                (r.status = 200 /\ truthy(field(r.body, "access_token")))
                  => /\ pc' = "setup" /\ envFile'.exists
                     /\ lastSave' # <<>> /\ lastSave'[1].tokens = r.body
                     /\ occursIn(kv(GRANOLA_ACCESS_TOKEN, r.body.access_token)
                                   \o <<NL>>, envFile'.content) ]_vars

\* C25's case: after the failed launch a callback with the code and the
\* generated state arrived first, and the exchanged tokens are in .env
C25_Witness ==
  /\ prog = "auth" /\ pc = "setup" /\ race = "callback"
  /\ firstCallback = <<[code |-> code1, state |-> state]>>
  /\ isTokenRequest(requests[Len(requests)])
  /\ lastSave # <<>>
  /\ getKey(readEnv(envFile), GRANOLA_ACCESS_TOKEN) = lastSave[1].tokens.access_token

\* A run of refresh.js ends after a refresh that succeeded
RefreshSucceeds ==
  prog = "refresh" /\ pc = "refreshing" /\ pc' = "exited" /\ exitCode' = 0

\* The keys a refresh may give new values
TokenKeys ==
  {GRANOLA_ACCESS_TOKEN, GRANOLA_REFRESH_TOKEN, GRANOLA_TOKEN_EXPIRES_AT}

\* C26: after a refresh that succeeded, the client id and the token
\* endpoint in .env are the ones main loaded, and every key of the file
\* other than the access token, the refresh token and the expiry has the
\* value it had before.
C26_RefreshKeepsClientAndEndpoint ==
  [][ RefreshSucceeds
        => \A before \in {readEnv(envFile)}, after \in {readEnv(envFile')} :
             /\ getKey(after, GRANOLA_CLIENT_ID) = getKey(env, GRANOLA_CLIENT_ID)
             /\ getKey(after, GRANOLA_TOKEN_ENDPOINT)
                  = getKey(env, GRANOLA_TOKEN_ENDPOINT)
             /\ env = before
             /\ \A k \in keysOf(after) \ TokenKeys :
                  hasKey(before, k) /\ getKey(after, k) = getKey(before, k) ]_vars

\* C26's case: a refresh over the file that held client id c2 and no access
\* token has written a1 and left c2 and the endpoint
C26_Witness ==
  /\ prog = "refresh" /\ pc = "exited" /\ exitCode = 0 /\ envFile # envAtStart
  /\ ~hasKey(readEnv(envAtStart), GRANOLA_ACCESS_TOKEN)
  /\ getKey(readEnv(envFile), GRANOLA_ACCESS_TOKEN) = a1
  /\ getKey(readEnv(envFile), GRANOLA_CLIENT_ID) = c2
  /\ getKey(readEnv(envFile), GRANOLA_TOKEN_ENDPOINT) = e1

\* C27: after every refresh that succeeded, .env holds a non-empty refresh
\* token, whether or not the response carried one.
C27_RefreshTokenKept ==
  [][ RefreshSucceeds
        => truthy(getKey(readEnv(envFile'), GRANOLA_REFRESH_TOKEN)) ]_vars

=============================================================================
